---- MODULE Spec2Model ----
(***************************************************************************)
(* Byte::sparse_vector<T, Allocator> (src/sparse_vector.h): a contiguous   *)
(* buffer of slots, one 64-bit occupancy bitset per chunk of 64 slots, and *)
(* an ordered set of the chunks that still have a free slot.               *)
(*                                                                         *)
(* A std::bitset<64> is modelled as the set of its bit positions that are  *)
(* set (position 0 is the least significant bit), so that to_ullong(),     *)
(* the masks and std::countl_zero are computed as the code computes them   *)
(* without 64-bit arithmetic.  Slot bit_index of a chunk lives at position *)
(* 63 - bit_index.                                                         *)
(*                                                                         *)
(* The buffer is a function from slot index to the object constructed      *)
(* there; Raw marks storage in which no object has been constructed (or    *)
(* whose object has been destroyed).  The value of the pointer _data is an *)
(* address (0 is nullptr), and the allocator's heap is the set of the      *)
(* addresses it has handed out and not got back.                           *)
(***************************************************************************)
EXTENDS Integers, Sequences, FiniteSets, TLC

VARIABLES
    address,      \* pointer _data: its value (NullPointer is nullptr)
    _data,        \* what _data points to: [0.._capacity-1 -> Values \cup {Raw}]
    bitsets,      \* bitset_vector bitsets: [0..n-1 -> SUBSET BitPositions]
    indices,      \* index_set indices: chunks registered as having a free slot
    _size,        \* size_t _size
    _capacity,    \* size_t _capacity
    trivially_destructible, \* std::is_trivially_destructible<T>::value
    op,           \* the member function called last
    arg,          \* the index it was passed (NoIndex when it takes none)
    ret,          \* the index it returned (NoIndex when it returns none)
    fault,        \* how the call ended: "none", "out_of_range", "bad_alloc",
                  \* "terminate", "ub"
    heap,         \* the addresses allocated and not deallocated
    second,       \* a second sparse_vector of the same element type
    second_kind   \* how it came to be: "absent", "copy", "moved_to"

vars == <<address, _data, bitsets, indices, _size, _capacity,
          trivially_destructible, op, arg, ret, fault, heap, second,
          second_kind>>

----------------------------------------------------------------------------
(* Bounds of the model *)

\* growth stops at this many chunks
MaxChunks == 4

\* the driver stores one of this many element values
NumValues == 3

\* the driver adds no element once size() has reached this
MaxSize == 130

\* the driver adds no element once size() exceeds the number of occupied
\* slots by this much
MaxExcess == 2

\* with a second object about, the driver adds no element to an object
\* whose size() has reached this
MaxPairSize == 3

\* slot indices on which the driver calls erase and insert
ProbeIndices == {2, 5, 64, 128}

\* arguments the driver passes to the constructor
InitialCapacities == {0, 1, 64, 130}

----------------------------------------------------------------------------
(* Constants of the program *)

_BITSET_SIZE == 64

BitPositions == 0 .. (_BITSET_SIZE - 1)

Raw == 0

Values == 1 .. NumValues

NoIndex == -1

\* nullptr
NullPointer == 0

\* the addresses the allocator hands out
Addresses == 1 .. 5

\* the value the driver stores in a slot: it identifies the slot, so that a
\* relocation that moves an element to another index changes the buffer
DriverValue(index) == IF index = NoIndex THEN 1 ELSE (index % NumValues) + 1

Min(S) == CHOOSE m \in S : \A n \in S : m <= n

\* std::vector::size() of a vector held as a function on 0..n-1
Size(v) == Cardinality(DOMAIN v)

EmptyVector == [i \in {} |-> 0]

----------------------------------------------------------------------------
(* std::bitset<64> and <bit> *)

\* std::countl_zero of the 64-bit word whose set bits are x: the least
\* distance from the top bit down to a set bit
countl_zero(x) ==
    IF x = {} THEN _BITSET_SIZE
    ELSE Min({(_BITSET_SIZE - 1) - pos : pos \in x})

\* operator~ on the word
flip(x) == BitPositions \ x

\* bitset::test(pos)
test(x, pos) == pos \in x

\* bitset::set(pos)
set(x, pos) == x \cup {pos}

\* bitset::set(pos, false)
reset(x, pos) == x \ {pos}

\* bitset::all()
all(x) == x = BitPositions

\* bitset::any()
any(x) == x # {}

\* x & ((1ULL << bit_count) - 1ULL)
mask_low(x, bit_count) == {p \in x : p < bit_count}

----------------------------------------------------------------------------
(* sparse_vector_iterator *)

OutOfRange == -2

\* the for loop of operator++, entered at bitset_index with the current _index
RECURSIVE increment_loop(_, _, _)
increment_loop(bs, bitset_index, index) ==
    IF bitset_index >= Size(bs) THEN index
    ELSE LET bit_count == (_BITSET_SIZE - 1) - (index % _BITSET_SIZE)
             masked    == mask_low(bs[bitset_index], bit_count)
             count     == countl_zero(masked)
         IN  IF count # _BITSET_SIZE
             THEN bitset_index * _BITSET_SIZE + count
             ELSE increment_loop(bs, bitset_index + 1,
                                 index + (_BITSET_SIZE - (index % _BITSET_SIZE)))

\* operator++ : the _index after the increment
increment(bs, index) == increment_loop(bs, index \div _BITSET_SIZE, index)

\* the constructor with a non-null bitsets pointer: the resulting _index,
\* or OutOfRange when bitsets_ptr->at() throws
iterator_at(bs, index) ==
    IF index \div _BITSET_SIZE >= Size(bs) THEN OutOfRange
    ELSE IF ~test(bs[index \div _BITSET_SIZE],
                  (_BITSET_SIZE - 1) - (index % _BITSET_SIZE))
         THEN increment(bs, index)
         ELSE index

\* begin()._index
begin(bs) == iterator_at(bs, 0)

\* end()._index
end(bs) == Size(bs) * _BITSET_SIZE

\* the indices at which a loop "for (it = from; it != end(); ++it)" stands
\* before the iterator reaches stop
RECURSIVE walk(_, _, _)
walk(bs, from, stop) ==
    IF from = end(bs) \/ from >= stop THEN <<>>
    ELSE <<from>> \o walk(bs, increment(bs, from), stop)

\* the whole loop, one chunk of indices after the other: each part goes on
\* from the increment of the last index of the part before
RECURSIVE walk_chunks(_, _)
walk_chunks(bs, from) ==
    IF from = end(bs) THEN <<>>
    ELSE LET stop == ((from \div _BITSET_SIZE) + 1) * _BITSET_SIZE
             part == walk(bs, from, stop)
         IN  part \o walk_chunks(bs, increment(bs, part[Len(part)]))

\* the slot indices a traversal from begin() to end() visits, in order
traverse(bs) == walk_chunks(bs, begin(bs))

Range(s) == {s[k] : k \in 1 .. Len(s)}

----------------------------------------------------------------------------
(* The object and the outcome of a call *)

\* the members of a sparse_vector (ptr is the value of _data, data what it
\* points to) together with the heap its allocator works on
Object(p, d, b, i, s, c, h) ==
    [ptr |-> p, data |-> d, bitsets |-> b, indices |-> i, size |-> s,
     capacity |-> c, heap |-> h]

\* the members before the constructor body runs, on heap h
Fresh(h) == Object(NullPointer, EmptyVector, EmptyVector, {}, 0, 0, h)

Self == Object(address, _data, bitsets, indices, _size, _capacity, heap)

\* the second object, on the heap as it is now
Second == [second EXCEPT !.heap = heap]

\* allocator_traits::allocate: an address that is not in use
allocate(h) == Min(Addresses \ h)

\* allocator_traits::deallocate
deallocate(h, p) == h \ {p}

Done(o)    == [obj |-> o, fault |-> "none", ret |-> NoIndex]

Returns(o, index) == [obj |-> o, fault |-> "none", ret |-> index]

Throws(o)  == [obj |-> o, fault |-> "out_of_range", ret |-> NoIndex]

\* undefined behaviour: the object has no defined state from here on, and no
\* member function is applied to it any more
Undefined(o) == [obj |-> o, fault |-> "ub", ret |-> NoIndex]

\* std::bad_alloc leaves the call: allocator_traits::allocate has failed
BadAlloc(o) == [obj |-> o, fault |-> "bad_alloc", ret |-> NoIndex]

\* std::terminate: an exception has left a noexcept function
Terminates(o) == [obj |-> o, fault |-> "terminate", ret |-> NoIndex]

\* undefined behaviour of a call whose statements can all be carried out:
\* o is what they arrive at
AsWritten(o) == [obj |-> o, fault |-> "as_written", ret |-> NoIndex]

\* what a build can make of such a call: the run is lost, or the call does
\* what its statements say
Builds(r) ==
    IF r.fault = "as_written"
    THEN {[r EXCEPT !.fault = "ub"], [r EXCEPT !.fault = "none"]}
    ELSE {r}

----------------------------------------------------------------------------
(* private members *)

\* expand that relocates one element too few
expand_short(o, new_capacity) ==
    IF \/ o.size > o.capacity
       \/ o.size > new_capacity
       \/ \E index \in 0 .. (o.size - 1) : o.data[index] = Raw
    THEN Undefined(o)
    ELSE Done(Object(
            allocate(o.heap),
            [index \in 0 .. (new_capacity - 1) |->
                IF index < o.size - 1 THEN o.data[index] ELSE Raw],
            [bitset_index \in 0 .. ((new_capacity \div _BITSET_SIZE) - 1) |->
                IF bitset_index < Size(o.bitsets)
                THEN o.bitsets[bitset_index] ELSE {}],
            o.indices \cup
                (o.capacity \div _BITSET_SIZE) .. ((new_capacity \div _BITSET_SIZE) - 1),
            o.size,
            new_capacity,
            deallocate(o.heap \cup {allocate(o.heap)}, o.ptr)))

\* expand(new_capacity)
expand(o, new_capacity) ==
    IF \/ o.size > o.capacity
       \/ o.size > new_capacity
       \/ \E index \in 0 .. (o.size - 1) : o.data[index] = Raw
    THEN Undefined(o)   \* moves from, or into, storage that holds no object
    ELSE Done(Object(
            allocate(o.heap),
            [index \in 0 .. (new_capacity - 1) |->
                IF index < o.size THEN o.data[index] ELSE Raw],
            [bitset_index \in 0 .. ((new_capacity \div _BITSET_SIZE) - 1) |->
                IF bitset_index < Size(o.bitsets)
                THEN o.bitsets[bitset_index] ELSE {}],
            o.indices \cup
                (o.capacity \div _BITSET_SIZE) .. ((new_capacity \div _BITSET_SIZE) - 1),
            o.size,
            new_capacity,
            deallocate(o.heap \cup {allocate(o.heap)}, o.ptr)))

\* _emplace(index, args...)
_emplace(o, index, value) ==
    LET bitset_index == index \div _BITSET_SIZE
        bit_index    == index % _BITSET_SIZE
    IN  IF bitset_index >= Size(o.bitsets) \/ index >= o.capacity
        THEN Undefined(o)   \* bitsets[bitset_index], _data[index] out of bounds
        ELSE LET word == set(o.bitsets[bitset_index], (_BITSET_SIZE - 1) - bit_index)
             IN  Done(Object(
                    o.ptr,
                    [o.data EXCEPT ![index] = value],
                    [o.bitsets EXCEPT ![bitset_index] = word],
                    IF all(word) THEN o.indices \ {bitset_index} ELSE o.indices,
                    o.size + 1,
                    o.capacity,
                    o.heap))

\* free_index that takes the last registered chunk instead of the first
free_index_last(o) ==
    LET grown == IF o.indices = {} THEN expand(o, 2 * o.capacity) ELSE Done(o)
        g     == grown.obj
    IN  IF grown.fault # "none" THEN grown
        ELSE IF g.indices = {} THEN Undefined(g)
        ELSE LET bitset_index ==
                     CHOOSE m \in g.indices : \A n \in g.indices : n <= m
             IN  IF bitset_index >= Size(g.bitsets) THEN Undefined(g)
                 ELSE Returns(g, countl_zero(flip(g.bitsets[bitset_index]))
                                 + bitset_index * _BITSET_SIZE)

\* free_index()
free_index(o) ==
    LET grown == IF o.indices = {} THEN expand(o, 2 * o.capacity) ELSE Done(o)
        g     == grown.obj
    IN  IF grown.fault # "none" THEN grown
        ELSE IF g.indices = {} THEN Undefined(g)   \* *indices.begin() of an empty set
        ELSE LET bitset_index == Min(g.indices)
             IN  IF bitset_index >= Size(g.bitsets) THEN Undefined(g)
                 ELSE Returns(g, countl_zero(flip(g.bitsets[bitset_index]))
                                 + bitset_index * _BITSET_SIZE)

\* shrink(new_capacity)
shrink(o, new_capacity) ==
    LET visited == Range(traverse(o.bitsets))
    IN  IF \E index \in visited :
               index >= new_capacity \/ index >= o.capacity \/ o.data[index] = Raw
        THEN Undefined(o)
        ELSE Done(Object(
                allocate(o.heap),
                [index \in 0 .. (new_capacity - 1) |->
                    IF index \in visited THEN o.data[index] ELSE Raw],
                [bitset_index \in 0 .. ((new_capacity \div _BITSET_SIZE) - 1) |->
                    o.bitsets[bitset_index]],
                0 .. ((new_capacity \div _BITSET_SIZE) - 1),
                o.size,
                new_capacity,
                deallocate(o.heap \cup {allocate(o.heap)}, o.ptr)))

----------------------------------------------------------------------------
(* private members, when the allocator fails *)

\* expand that has set _capacity and registered the new chunks by the time
\* it allocates
expand_bad_alloc_eager(o, new_capacity) ==
    BadAlloc([o EXCEPT
                !.indices = @ \cup (o.capacity \div _BITSET_SIZE) ..
                                   ((new_capacity \div _BITSET_SIZE) - 1),
                !.capacity = new_capacity])

\* expand(new_capacity) when allocate throws: temp has been initialized, and
\* _data is assigned only what allocate returns
expand_bad_alloc(o, new_capacity) == BadAlloc(o)

\* free_index() when allocate throws
free_index_bad_alloc(o) ==
    IF o.indices = {} THEN expand_bad_alloc(o, 2 * o.capacity)
    ELSE free_index(o)

\* shrink(new_capacity) when allocate throws: temp and the two iterators
\* have been initialized
shrink_bad_alloc(o, new_capacity) ==
    IF begin(o.bitsets) = OutOfRange THEN Throws(o) ELSE BadAlloc(o)

----------------------------------------------------------------------------
(* public members *)

\* sparse_vector(size_t initial_capacity = _BITSET_SIZE), on heap h
sparse_vector_on(h, initial_capacity) ==
    LET rounded == IF (initial_capacity % _BITSET_SIZE) # 0
                   THEN initial_capacity
                        + (_BITSET_SIZE - (initial_capacity % _BITSET_SIZE))
                   ELSE initial_capacity
    IN  expand(Fresh(h), rounded)

\* the first object of a program: nothing is allocated yet
sparse_vector(initial_capacity) == sparse_vector_on({}, initial_capacity)

\* push that scans the bitset itself instead of its complement
push_unflipped(o, value) ==
    LET grown == IF o.indices = {} THEN expand(o, 2 * o.capacity) ELSE Done(o)
        g     == grown.obj
    IN  IF grown.fault # "none" THEN grown
        ELSE IF g.indices = {} THEN Undefined(g)
        ELSE LET bitset_index == Min(g.indices)
             IN  IF bitset_index >= Size(g.bitsets) THEN Undefined(g)
                 ELSE LET index == countl_zero(g.bitsets[bitset_index])
                                   + bitset_index * _BITSET_SIZE
                          placed == _emplace(g, index, value)
                      IN  IF placed.fault # "none" THEN placed
                          ELSE Returns(placed.obj, index)

\* push(T&& value)
push(o, value) ==
    LET grown == IF o.indices = {} THEN expand(o, 2 * o.capacity) ELSE Done(o)
        g     == grown.obj
    IN  IF grown.fault # "none" THEN grown
        ELSE IF g.indices = {} THEN Undefined(g)   \* *indices.begin() of an empty set
        ELSE LET bitset_index == Min(g.indices)
             IN  IF bitset_index >= Size(g.bitsets) THEN Undefined(g)
                 ELSE LET index == countl_zero(flip(g.bitsets[bitset_index]))
                                   + bitset_index * _BITSET_SIZE
                          placed == _emplace(g, index, value)
                      IN  IF placed.fault # "none" THEN placed
                          ELSE Returns(placed.obj, index)

\* emplace(Args&&... args)
emplace(o, value) ==
    LET found == free_index(o)
    IN  IF found.fault # "none" THEN found
        ELSE LET placed == _emplace(found.obj, found.ret, value)
             IN  IF placed.fault # "none" THEN placed
                 ELSE Returns(placed.obj, found.ret)

\* insert that leaves the registry of free chunks as it is
insert_unregistered(o, index, value) ==
    LET placed == _emplace(o, index, value)
    IN  [placed EXCEPT !.obj.indices = o.indices]

\* insert(size_t index, T&& value)
insert(o, index, value) == _emplace(o, index, value)

\* erase that clears bit bit_index instead of bit 63 - bit_index
erase_unmirrored(o, index) ==
    LET bitset_index == index \div _BITSET_SIZE
        bit_index    == index % _BITSET_SIZE
    IN  IF \/ bitset_index >= Size(o.bitsets)
           \/ index >= o.capacity
           \/ (~trivially_destructible /\ o.data[index] = Raw)
        THEN Undefined(o)
        ELSE Done(Object(
                o.ptr,
                IF trivially_destructible THEN o.data
                ELSE [o.data EXCEPT ![index] = Raw],
                [o.bitsets EXCEPT ![bitset_index] = reset(@, bit_index)],
                IF all(o.bitsets[bitset_index])
                THEN o.indices \cup {bitset_index} ELSE o.indices,
                o.size - 1,
                o.capacity,
                o.heap))

\* erase(size_t index)
erase(o, index) ==
    LET bitset_index == index \div _BITSET_SIZE
        bit_index    == index % _BITSET_SIZE
    IN  IF \/ bitset_index >= Size(o.bitsets)
           \/ index >= o.capacity
           \/ (~trivially_destructible /\ o.data[index] = Raw)
        THEN Undefined(o)   \* out of bounds, or destroys where no object is
        ELSE Done(Object(
                o.ptr,
                IF trivially_destructible THEN o.data
                ELSE [o.data EXCEPT ![index] = Raw],
                [o.bitsets EXCEPT ![bitset_index] =
                    reset(@, (_BITSET_SIZE - 1) - bit_index)],
                IF all(o.bitsets[bitset_index])
                THEN o.indices \cup {bitset_index} ELSE o.indices,
                o.size - 1,
                o.capacity,
                o.heap))

\* clear()
clear(o) ==
    LET emptied == Object(o.ptr, o.data, EmptyVector, {}, o.size, o.capacity,
                          o.heap)
    IN  IF ~trivially_destructible /\ begin(emptied.bitsets) = OutOfRange
        THEN Throws(emptied)   \* begin() of the range-for: bitsets.at(0) throws
        ELSE Done(Object(NullPointer, EmptyVector, EmptyVector, {}, 0, 0,
                         deallocate(o.heap, o.ptr)))

\* the capacity the loop of shrink_to_fit() arrives at, scanning down from bitset_index
RECURSIVE trimmed_capacity(_, _, _)
trimmed_capacity(o, bitset_index, new_capacity) ==
    IF bitset_index > 0 /\ ~any(o.bitsets[bitset_index])
    THEN trimmed_capacity(o, bitset_index - 1, new_capacity - _BITSET_SIZE)
    ELSE new_capacity

\* shrink_to_fit()
shrink_to_fit(o) ==
    IF o.size = 0 THEN clear(o)
    ELSE IF Size(o.bitsets) = 0
         THEN Undefined(o)   \* bitsets.size() - 1 wraps: bitsets[SIZE_MAX]
         ELSE LET new_capacity ==
                      trimmed_capacity(o, Size(o.bitsets) - 1, o.capacity)
              IN  IF new_capacity # o.capacity
                  THEN shrink(o, new_capacity)
                  ELSE Done(o)

\* copy that hands the source's buffer to the object it returns instead of
\* a buffer of its own
copy_shared(o) ==
    LET out      == sparse_vector_on(o.heap, 0).obj
        made     == Object(o.ptr, o.data, o.bitsets, o.indices, o.size,
                           o.capacity, out.heap)
    IN  IF begin(o.bitsets) = OutOfRange
        THEN Throws(out)
        ELSE Done(made)

\* copy() const: obj is the object returned.  Its loop assigns to storage in
\* which no object has been constructed, which is undefined unless T is
\* trivial; the members are then those the statements as written arrive at.
copy(o) ==
    LET out      == sparse_vector_on(o.heap, 0).obj
        out_data == allocate(out.heap)
        visited  == Range(traverse(o.bitsets))
        made     == Object(
                        out_data,
                        [index \in 0 .. (o.capacity - 1) |->
                            IF index \in visited THEN o.data[index] ELSE Raw],
                        o.bitsets,
                        o.indices,
                        o.size,
                        o.capacity,
                        out.heap \cup {out_data})
    IN  IF begin(o.bitsets) = OutOfRange
        THEN Throws([out EXCEPT !.heap = @ \cup {out_data}])   \* bitsets.at(0)
        ELSE IF \E index \in visited : index >= o.capacity \/ o.data[index] = Raw
        THEN Undefined([out EXCEPT !.heap = @ \cup {out_data}])
        ELSE IF ~trivially_destructible /\ visited # {}
        THEN AsWritten(made)
        ELSE Done(made)

\* sparse_vector(sparse_vector&& right): the object constructed
move_construct(right) ==
    Object(right.ptr, right.data, right.bitsets, right.indices, right.size,
           right.capacity, right.heap)

\* what a move leaves of right: the vector and the set moved from are empty
moved_from(right) ==
    Object(NullPointer, EmptyVector, EmptyVector, {}, 0, 0, right.heap)

\* sparse_vector(const sparse_vector& left): delegates to the move
\* constructor, with the temporary left.copy() returns
copy_construct(left) ==
    LET made == copy(left)
    IN  [made EXCEPT !.obj = move_construct(made.obj)]

\* operator=(sparse_vector&& right) noexcept, called on o: obj is o
\* afterwards.  An exception leaving clear() ends the program; otherwise
\* control flows off the end of the function, which has no return statement.
move_assign(o, right) ==
    LET cleared == clear(o)
    IN  IF cleared.fault # "none" THEN Terminates(cleared.obj)
        ELSE AsWritten(Object(right.ptr, right.data, right.bitsets,
                              right.indices, right.size, right.capacity,
                              cleared.obj.heap))

\* push(T&& value) when allocate throws
push_bad_alloc(o, value) ==
    IF o.indices = {} THEN expand_bad_alloc(o, 2 * o.capacity)
    ELSE push(o, value)

\* emplace(Args&&... args) when allocate throws
emplace_bad_alloc(o, value) ==
    LET found == free_index_bad_alloc(o)
    IN  IF found.fault # "none" THEN found
        ELSE LET placed == _emplace(found.obj, found.ret, value)
             IN  IF placed.fault # "none" THEN placed
                 ELSE Returns(placed.obj, found.ret)

\* shrink_to_fit() when allocate throws
shrink_to_fit_bad_alloc(o) ==
    IF o.size = 0 THEN clear(o)
    ELSE IF Size(o.bitsets) = 0
         THEN Undefined(o)
         ELSE LET new_capacity ==
                      trimmed_capacity(o, Size(o.bitsets) - 1, o.capacity)
              IN  IF new_capacity # o.capacity
                  THEN shrink_bad_alloc(o, new_capacity)
                  ELSE Done(o)

\* whether slot index is marked live in the occupancy bitsets
Live(o, index) ==
    /\ index \div _BITSET_SIZE < Size(o.bitsets)
    /\ test(o.bitsets[index \div _BITSET_SIZE],
            (_BITSET_SIZE - 1) - (index % _BITSET_SIZE))

----------------------------------------------------------------------------
(* The state machine: one caller (the driver) applying member functions to  *)
(* one object.  A call that throws or runs into undefined behaviour ends    *)
(* the run of the driver: fault records how, and the members are those the  *)
(* call had reached.                                                        *)

\* an object as the state keeps it: the heap is kept once, in heap
Kept(o) == [o EXCEPT !.heap = {}]

\* peer after a call has left o: two objects whose pointers are equal share
\* their storage, so what the call stored through o is what peer holds
Shared(peer, o) ==
    IF peer.ptr # NullPointer /\ peer.ptr = o.ptr
    THEN [peer EXCEPT !.data = o.data] ELSE peer

\* the call was made on the first object and ended as r
Becomes(r, name, index) ==
    /\ address' = r.obj.ptr
    /\ heap' = r.obj.heap
    /\ second' = Shared(second, r.obj)
    /\ UNCHANGED second_kind
    /\ _data' = r.obj.data
    /\ bitsets' = r.obj.bitsets
    /\ indices' = r.obj.indices
    /\ _size' = r.obj.size
    /\ _capacity' = r.obj.capacity
    /\ fault' = r.fault
    /\ ret' = r.ret
    /\ op' = name
    /\ arg' = index
    /\ UNCHANGED trivially_destructible

RECURSIVE count_bits(_, _)
count_bits(bs, n) ==
    IF n = 0 THEN 0 ELSE Cardinality(bs[n - 1]) + count_bits(bs, n - 1)

\* the number of slots marked live over all bitsets
Occupied(o) == count_bits(o.bitsets, Size(o.bitsets))

\* the driver's bounds on adding an element
MayAdd ==
    /\ _size < MaxSize
    /\ _size - Occupied(Self) < MaxExcess

\* growth is bounded by MaxChunks
MayGrow == indices = {} => 2 * _capacity <= MaxChunks * _BITSET_SIZE

Construct(initial_capacity) ==
    LET r == sparse_vector(initial_capacity)
    IN  /\ address = r.obj.ptr
        /\ heap = r.obj.heap
        /\ second = Kept(Fresh({}))
        /\ second_kind = "absent"
        /\ _data = r.obj.data
        /\ bitsets = r.obj.bitsets
        /\ indices = r.obj.indices
        /\ _size = r.obj.size
        /\ _capacity = r.obj.capacity
        /\ fault = r.fault
        /\ ret = NoIndex
        /\ op = "sparse_vector"
        /\ arg = NoIndex
        /\ trivially_destructible \in BOOLEAN

Init == \E initial_capacity \in InitialCapacities : Construct(initial_capacity)

InitDefault == Construct(_BITSET_SIZE)

Push ==
    /\ fault = "none"
    /\ MayAdd
    /\ MayGrow
    /\ \E value \in Values :
          /\ value = DriverValue(push(Self, value).ret)
          /\ Becomes(push(Self, value), "push", NoIndex)

Emplace ==
    /\ fault = "none"
    /\ MayAdd
    /\ MayGrow
    /\ \E value \in Values :
          /\ value = DriverValue(emplace(Self, value).ret)
          /\ Becomes(emplace(Self, value), "emplace", NoIndex)

\* precondition: index < capacity and the slot is free
Insert ==
    /\ fault = "none"
    /\ MayAdd
    /\ \E index \in ProbeIndices :
          /\ index < _capacity
          /\ ~Live(Self, index)
          /\ Becomes(insert(Self, index, DriverValue(index)), "insert", index)

\* precondition: the slot is live
Erase ==
    /\ fault = "none"
    /\ \E index \in ProbeIndices :
          /\ Live(Self, index)
          /\ Becomes(erase(Self, index), "erase", index)

ShrinkToFit ==
    /\ fault = "none"
    /\ LET r == shrink_to_fit(Self) IN Becomes(r, "shrink_to_fit", NoIndex)

Clear ==
    /\ fault = "none"
    /\ Becomes(clear(Self), "clear", NoIndex)

Next == Push \/ Emplace \/ Insert \/ Erase \/ ShrinkToFit \/ Clear

Spec == Init /\ [][Next]_vars

\* a default-constructed object under push, emplace, insert and erase
NextInsertErase == Push \/ Emplace \/ Insert \/ Erase

SpecInsertErase == InitDefault /\ [][NextInsertErase]_vars

----------------------------------------------------------------------------
(* The allocator may fail: a call that allocates is made either with an    *)
(* allocator that succeeds or with one that throws std::bad_alloc.         *)

\* the call is one that allocates: push and emplace when no chunk is
\* registered, shrink_to_fit when it gives chunks back
Grows == indices = {}

Reallocates ==
    /\ _size # 0
    /\ Size(bitsets) # 0
    /\ trimmed_capacity(Self, Size(bitsets) - 1, _capacity) # _capacity

PushBadAlloc ==
    /\ fault = "none"
    /\ Grows
    /\ \E value \in Values :
          /\ value = DriverValue(_size)
          /\ Becomes(push_bad_alloc(Self, value), "push", NoIndex)

EmplaceBadAlloc ==
    /\ fault = "none"
    /\ Grows
    /\ \E value \in Values :
          /\ value = DriverValue(_size)
          /\ Becomes(emplace_bad_alloc(Self, value), "emplace", NoIndex)

ShrinkToFitBadAlloc ==
    /\ fault = "none"
    /\ Reallocates
    /\ Becomes(shrink_to_fit_bad_alloc(Self), "shrink_to_fit", NoIndex)

NextBadAlloc ==
    \/ Push \/ Emplace \/ Insert \/ Erase \/ ShrinkToFit \/ Clear
    \/ PushBadAlloc \/ EmplaceBadAlloc \/ ShrinkToFitBadAlloc

SpecBadAlloc == Init /\ [][NextBadAlloc]_vars

----------------------------------------------------------------------------
(* Two objects: the first one, and a second one that is made from it by    *)
(* copy(), by the copy constructor or by the move constructor, and that is *)
(* move-assigned to from it.                                               *)

\* the call was made on the second object and ended as r
SecondBecomes(r, name, index) ==
    /\ second' = Kept(r.obj)
    /\ heap' = r.obj.heap
    /\ _data' = Shared(Self, r.obj).data
    /\ fault' = r.fault
    /\ ret' = r.ret
    /\ op' = name
    /\ arg' = index
    /\ UNCHANGED <<address, bitsets, indices, _size, _capacity,
                   trivially_destructible, second_kind>>

\* the first object is left as source by a call that made, or assigned to,
\* the second object, and that ended as r
Transfers(r, source, name, kind) ==
    /\ second' = Kept(r.obj)
    /\ second_kind' = kind
    /\ heap' = r.obj.heap
    /\ address' = source.ptr
    /\ _data' = source.data
    /\ bitsets' = source.bitsets
    /\ indices' = source.indices
    /\ _size' = source.size
    /\ _capacity' = source.capacity
    /\ fault' = r.fault
    /\ ret' = r.ret
    /\ op' = name
    /\ arg' = NoIndex
    /\ UNCHANGED trivially_destructible

SmallPush == _size < MaxPairSize /\ Push

SmallInsert == _size < MaxPairSize /\ Insert

\* second = first.copy(), or second{first}
Copy ==
    /\ fault = "none"
    /\ second_kind = "absent"
    /\ \E name \in {"copy", "copy_construct"} :
          \E r \in Builds(IF name = "copy" THEN copy(Self)
                          ELSE copy_construct(Self)) :
             IF r.fault = "none"
             THEN Transfers(r, Self, name, "copy")
             ELSE \* no object is returned; what was allocated stays allocated
                  Transfers([r EXCEPT !.obj = [second EXCEPT !.heap = r.obj.heap]],
                            Self, name, "absent")

\* second{std::move(first)}
MoveConstruct ==
    /\ fault = "none"
    /\ second_kind = "absent"
    /\ Transfers(Done(move_construct(Self)), moved_from(Self),
                 "move_construct", "moved_to")

\* second = std::move(first)
MoveAssign ==
    /\ fault = "none"
    /\ second_kind # "absent"
    /\ \E r \in Builds(move_assign(Second, Self)) :
          Transfers(r,
                    IF r.fault = "terminate" THEN Self ELSE moved_from(Self),
                    "move_assign",
                    IF r.fault = "terminate" THEN second_kind ELSE "moved_to")

PushSecond ==
    /\ fault = "none"
    /\ second_kind # "absent"
    /\ second.size < MaxPairSize
    /\ second.indices = {} => 2 * second.capacity <= MaxChunks * _BITSET_SIZE
    /\ \E value \in Values :
          /\ value = DriverValue(push(Second, value).ret)
          /\ SecondBecomes(push(Second, value), "second.push", NoIndex)

\* precondition: the slot is live
EraseSecond ==
    /\ fault = "none"
    /\ second_kind # "absent"
    /\ \E index \in ProbeIndices :
          /\ Live(second, index)
          /\ SecondBecomes(erase(Second, index), "second.erase", index)

NextTwo ==
    \/ SmallPush \/ SmallInsert \/ Erase
    \/ Copy \/ MoveConstruct \/ MoveAssign
    \/ PushSecond \/ EraseSecond

SpecTwo == Init /\ [][NextTwo]_vars

----------------------------------------------------------------------------
(* Vocabulary of the properties *)

\* the object after the step
SelfNext ==
    Object(address', _data', bitsets', indices', _size', _capacity', heap')

\* the slot indices marked live
LiveSlots(o) ==
    {index \in 0 .. (Size(o.bitsets) * _BITSET_SIZE - 1) : Live(o, index)}

\* the slot indices below capacity() that are not marked live
FreeSlots(o) == {index \in 0 .. (o.capacity - 1) : ~Live(o, index)}

StrictlyAscending(s) == \A k \in 1 .. (Len(s) - 1) : s[k] < s[k + 1]

\* the step is a call of push that returned normally
PushStep == op' = "push" /\ fault' = "none"

\* the step is a call of push or emplace that returned normally
AddStep == op' \in {"push", "emplace"} /\ fault' = "none"

----------------------------------------------------------------------------
(* Properties *)

\* C1: in every state reachable by push, emplace, insert and erase, a
\* traversal from begin() to end() visits exactly the live slot indices, each
\* once, in strictly ascending order, so that it visits size() slots.
C1_IterationVisitsLiveSlots ==
    fault = "none" =>
        /\ Range(traverse(bitsets)) = LiveSlots(Self)
        /\ StrictlyAscending(traverse(bitsets))
        /\ Len(traverse(bitsets)) = _size

\* C2: push never returns an index that is live; the index it returns is
\* live afterwards, and a live index stops being live only by an erase of
\* that index.
C2_PushNeverReturnsLiveIndex ==
    [][ /\ PushStep => ~Live(Self, ret') /\ Live(SelfNext, ret')
        /\ \A index \in LiveSlots(Self) :
              ~Live(SelfNext, index) => op' = "erase" /\ arg' = index
      ]_vars

\* C2 witness: a push has returned index 5 again after it was erased, while
\* the indices handed out after it (6 and 7) are still live.
C2_Witness ==
    /\ op = "push" /\ ret = 5 /\ fault = "none"
    /\ Live(Self, 6) /\ Live(Self, 7)

\* C3: when some slot below capacity() is free, push and emplace return the
\* numerically smallest free slot index.
C3_PushReturnsSmallestFree ==
    [][ (AddStep /\ FreeSlots(Self) # {}) => ret' = Min(FreeSlots(Self)) ]_vars

\* C3 witness: with 2 and 5 both erased, push has returned 2 and left 5 free.
C3_Witness ==
    /\ op = "push" /\ ret = 2 /\ fault = "none"
    /\ ~Live(Self, 5) /\ Live(Self, 6)

\* C4: in every state the free-chunk registry is exactly the set of chunk
\* indices below capacity()/64 whose bitset is not all ones.
C4_RegistryIsExact ==
    fault = "none" =>
        indices = {bitset_index \in 0 .. ((_capacity \div _BITSET_SIZE) - 1) :
                      ~all(bitsets[bitset_index])}

\* C5: in every state size() equals the number of set bits over all chunk
\* bitsets; every push adds exactly 1 to size() and every erase of a live
\* index takes exactly 1 from it.
C5_SizeCountsSetBits ==
    /\ [](fault = "none" => _size = Occupied(Self))
    /\ [][ /\ AddStep => _size' = _size + 1
           /\ (op' = "erase" /\ fault' = "none") => _size' = _size - 1
         ]_vars

\* C6: erase(i) of a live index i changes nothing but slot i: slot i stops
\* being live, every other slot keeps its liveness and its value, and
\* capacity() and the number of bitsets are unchanged.
C6_EraseChangesOnlyItsSlot ==
    [][ (op' = "erase" /\ fault' = "none") =>
           /\ Live(Self, arg') /\ ~Live(SelfNext, arg')
           /\ _capacity' = _capacity
           /\ Size(bitsets') = Size(bitsets)
           /\ \A index \in (0 .. (_capacity - 1)) \ {arg'} :
                 /\ Live(SelfNext, index) <=> Live(Self, index)
                 /\ _data'[index] = _data[index]
      ]_vars

\* C6 witness: of the elements at 1, 2 and 3 the one at 2 has been erased,
\* and those at 1 and 3 are live with their values.
C6_Witness ==
    /\ op = "erase" /\ arg = 2 /\ fault = "none"
    /\ Live(Self, 1) /\ _data[1] = DriverValue(1)
    /\ Live(Self, 3) /\ _data[3] = DriverValue(3)

\* C7: from a default-constructed object, a push grows the buffer only when
\* every slot below capacity() is live; the growth doubles capacity() and
\* keeps every element live at its index with its value.  When the 65th
\* push has returned 64, capacity() is 128 (one growth) and the 65 handles
\* 0..64 address their values.
C7_GrowthOnlyWhenFull ==
    /\ [][ (PushStep /\ _capacity' # _capacity) =>
              /\ FreeSlots(Self) = {}
              /\ _capacity' = 2 * _capacity
              /\ \A index \in 0 .. (_capacity - 1) :
                    /\ Live(SelfNext, index)
                    /\ _data[index] # Raw
                    /\ _data'[index] = _data[index]
         ]_vars
    /\ []( (op = "push" /\ ret = _BITSET_SIZE /\ _size = _BITSET_SIZE + 1) =>
              /\ _capacity = 2 * _BITSET_SIZE
              /\ \A index \in 0 .. _BITSET_SIZE :
                    Live(Self, index) /\ _data[index] = DriverValue(index) )

\* C7 witness: the 65th push has grown the buffer from 64 to 128 slots and
\* returned 64.
C7_Witness ==
    /\ op = "push" /\ ret = _BITSET_SIZE /\ fault = "none"
    /\ _size = _BITSET_SIZE + 1
    /\ _capacity = 2 * _BITSET_SIZE

\* C8: after shrink_to_fit() every element that was live before the call is
\* live at the same slot index and holds the same value.
C8_ShrinkKeepsElements ==
    [][ (op' = "shrink_to_fit" /\ fault' = "none" /\ _size > 0) =>
           \A index \in LiveSlots(Self) :
               Live(SelfNext, index) /\ _data'[index] = _data[index]
      ]_vars

\* C9: after shrink_to_fit() on a non-empty object capacity() is 64 * (k + 1),
\* k being the highest chunk that holds a live element; after
\* shrink_to_fit() on an empty object capacity() is 0.
C9_ShrinkCapacity ==
    [][ op' = "shrink_to_fit" =>
           IF _size = 0 THEN _capacity' = 0
           ELSE \A index \in LiveSlots(Self) :
                   (\A other \in LiveSlots(Self) : other <= index) =>
                       _capacity' =
                           _BITSET_SIZE * ((index \div _BITSET_SIZE) + 1)
      ]_vars

\* C10: after clear() size() is 0, capacity() is one chunk (64) with that
\* chunk registered as free, and the next push returns index 0.
C10_ClearResetsToOneChunk ==
    /\ [](op = "clear" =>
              /\ _size = 0
              /\ _capacity = _BITSET_SIZE
              /\ indices = {0})
    /\ [][ (op = "clear" /\ op' = "push") => fault' = "none" /\ ret' = 0 ]_vars

\* the step is a copy() or a copy construction of the second object from the
\* first
CopyStep == op' \in {"copy", "copy_construct"}

\* C11: copy() and copy construction return normally and yield an object
\* with the size, capacity, occupancy bitsets and free-chunk registry of the
\* source, in which every live slot of the source holds the source's value
\* (the first slot of a chunk other than chunk 0 included).
C11_CopyEqualsSource ==
    [][ CopyStep =>
           /\ fault' = "none"
           /\ second'.size = _size
           /\ second'.capacity = _capacity
           /\ second'.bitsets = bitsets
           /\ second'.indices = indices
           /\ \A index \in LiveSlots(Self) :
                 second'.data[index] = _data[index]
      ]_vars

\* C12: once the second object is a copy of the first, a push or an erase
\* on the copy leaves the original's storage, size, capacity, bitsets,
\* registry and element values as they were, and a push, insert or erase on
\* the original leaves the copy as it was.
C12_CopyIsIndependent ==
    [][ second_kind = "copy" =>
           /\ op' \in {"second.push", "second.erase"} =>
                 /\ address' = address
                 /\ _data' = _data
                 /\ bitsets' = bitsets
                 /\ indices' = indices
                 /\ _size' = _size
                 /\ _capacity' = _capacity
           /\ op' \in {"push", "insert", "erase"} => second' = second
      ]_vars

\* C12 witness: the copy of an object holding elements at 0 and 1 has been
\* pushed to; the push returned 2, which is live in the copy and free in the
\* original, whose elements are as they were.
C12_Witness ==
    /\ second_kind = "copy" /\ op = "second.push" /\ ret = 2 /\ fault = "none"
    /\ Live(second, 2) /\ ~Live(Self, 2)
    /\ _size = 2 /\ second.size = 3
    /\ _data[0] = DriverValue(0) /\ _data[1] = DriverValue(1)

\* the step moves the first object into the second, by construction or by
\* assignment
MoveStep == op' \in {"move_construct", "move_assign"}

\* C13: after move construction or move assignment from the first object,
\* the second has the first's former size, capacity, bitsets, registry and
\* element values at the same indices, and the first is left with size() 0,
\* capacity() 0, a null _data and no bitset.
C13_MoveTransfers ==
    [][ MoveStep =>
           /\ fault' = "none"
           /\ second'.size = _size
           /\ second'.capacity = _capacity
           /\ second'.bitsets = bitsets
           /\ second'.indices = indices
           /\ \A index \in LiveSlots(Self) :
                 second'.data[index] = _data[index]
           /\ _size' = 0
           /\ _capacity' = 0
           /\ address' = NullPointer
           /\ bitsets' = EmptyVector
      ]_vars

\* C14: in every state, whatever the constructor argument and whatever
\* sequence of push, emplace, insert, erase, shrink_to_fit and clear,
\* capacity() is a multiple of 64 and there is one bitset per chunk:
\* bitsets.size() is capacity() / 64.
C14_OneBitsetPerChunk ==
    /\ _capacity % _BITSET_SIZE = 0
    /\ Size(bitsets) = _capacity \div _BITSET_SIZE

\* C15: insert(index, value) with index < capacity() and slot index free
\* does the bookkeeping of an emplace that was assigned that index: the
\* slot's bit becomes set, size() grows by 1, the chunk leaves the registry
\* of free chunks exactly when it has become full, and no other slot, bit or
\* registry entry changes; where emplace would have taken that index, the
\* object after insert is the object after emplace.
C15_InsertBooksLikeEmplace ==
    [][ (op' = "insert" /\ fault' = "none") =>
           LET index        == arg'
               bitset_index == arg' \div _BITSET_SIZE
           IN  /\ ~Live(Self, index) /\ Live(SelfNext, index)
               /\ _size' = _size + 1
               /\ indices' = IF all(bitsets'[bitset_index])
                             THEN indices \ {bitset_index} ELSE indices
               /\ _capacity' = _capacity
               /\ address' = address
               /\ Size(bitsets') = Size(bitsets)
               /\ \A slot \in (0 .. (_capacity - 1)) \ {index} :
                     /\ Live(SelfNext, slot) <=> Live(Self, slot)
                     /\ _data'[slot] = _data[slot]
               /\ (free_index(Self).fault = "none" /\ free_index(Self).ret = index)
                     => SelfNext = emplace(Self, _data'[index]).obj
      ]_vars

\* C15 witness: insert(2, value) has filled the one free slot of chunk 0,
\* which has left the registry.
C15_Witness ==
    /\ op = "insert" /\ arg = 2 /\ fault = "none"
    /\ all(bitsets[0]) /\ 0 \notin indices
    /\ _size = _BITSET_SIZE
    /\ _data[2] = DriverValue(2)

\* C16: a push on an object whose capacity() is 0 grows it to at least one
\* chunk, returns index 0 and leaves size() 1 and capacity() at least 64.
C16_PushOnCapacityZero ==
    [][ (op' = "push" /\ _capacity = 0) =>
           /\ fault' = "none"
           /\ ret' = 0
           /\ _size' = 1
           /\ _capacity' >= _BITSET_SIZE
           /\ Live(SelfNext, 0)
      ]_vars

\* the step is a call during which the allocator fails
AllocationFails == PushBadAlloc \/ EmplaceBadAlloc \/ ShrinkToFitBadAlloc

\* C17: when the allocator fails while push or emplace grows the object, or
\* while shrink_to_fit reallocates, std::bad_alloc reaches the caller and
\* the object's storage pointer, size, capacity, bitsets, registry and
\* element values are those from before the call.
C17_FailedAllocationChangesNothing ==
    [][ AllocationFails =>
           /\ fault' = "bad_alloc"
           /\ address' = address
           /\ _data' = _data
           /\ bitsets' = bitsets
           /\ indices' = indices
           /\ _size' = _size
           /\ _capacity' = _capacity
           /\ heap' = heap
      ]_vars

\* C17 witness: the 65th push of a default-constructed object has met a
\* failing allocator; the 64 elements are where they were.
C17_Witness ==
    /\ op = "push" /\ fault = "bad_alloc"
    /\ _size = _BITSET_SIZE /\ _capacity = _BITSET_SIZE
    /\ all(bitsets[0])
    /\ \A index \in 0 .. (_BITSET_SIZE - 1) : _data[index] = DriverValue(index)

\* C18: for an element type that is not trivially destructible, clear()
\* returns normally with every element that was live destroyed and, after
\* that, the storage released: no object is left, _data is null and its
\* address is back with the allocator.
C18_ClearDestroysAndReleases ==
    [][ (op' = "clear" /\ ~trivially_destructible) =>
           /\ fault' = "none"
           /\ _data' = EmptyVector
           /\ address' = NullPointer
           /\ heap' = deallocate(heap, address)
           /\ _size' = 0
      ]_vars

\* the step is a push on an object that has capacity
PushWithCapacity == op' = "push" /\ _capacity > 0

\* C19: in every state reached by push, emplace, insert, erase and
\* shrink_to_fit of a non-empty object, push returns an index below
\* capacity() whose slot was free just before the call, the first push
\* after a shrink_to_fit that left only full chunks included.
C19_PushReturnsFreeSlotInBounds ==
    [][ PushWithCapacity =>
           /\ fault' = "none"
           /\ ret' < _capacity'
           /\ ~Live(Self, ret')
      ]_vars

====
